---------------------------- MODULE Spec2Model ----------------------------
(***************************************************************************)
(* A model of slamon: the timeliness monitor of thredds.met.no products.   *)
(*                                                                         *)
(*   src/slamon/modelrun.py    the schedule (required, prev, is_delayed)   *)
(*   src/slamon/thredds.py     ApplicationNode.fetch, one thread per node  *)
(*   src/slamon/statuspage.py  the statuspage.io client                    *)
(*   src/slamon.py             main: one evaluation pass                   *)
(*                                                                         *)
(* Instants are minutes since 1970-01-01T00:00Z (negative before it).      *)
(* Spec is the pass (main, run again and again against one board);         *)
(* SpecSched applies the schedule's functions to bounded inputs.           *)
(***************************************************************************)
EXTENDS Integers, Sequences, FiniteSets, TLC

VARIABLES
    \* --- SpecSched: one call of ModelRun.required ---
    cls,                  \* the class required() is called on
    datetime_,            \* its argument
    obj,                  \* the bulletin of the object it returned (False_ before)
    prev_obj,             \* the bulletin of obj.prev() (False_ before)
    \* --- SpecPage: a client of one StatusPage object ---
    called,               \* the method it called last ("none" before)
    \* --- SpecLock: threads in StatusPage.__call ---
    API_LOCK,             \* statuspage.py:25, the value of the semaphore
    caller,               \* per thread: where it is in __call
    \* --- Spec: main ---
    pc,                   \* where main is
    exc,                  \* the exception that ended main ("none" if none did)
    now,                  \* slamon.py:83
    thread,               \* per node: state of its fetch thread
    result,               \* per node: ApplicationNode.result, model -> bulletin
    most_recent_bulletin, \* slamon.py:91, a dict: model -> bulletin
    lost,                 \* history: models some raised fetch left unobserved
    dryrun,               \* StatusPage.__dryrun
    sp_components,        \* StatusPage.__components: component id -> status
    sp_active_incidents,  \* StatusPage.__active_incidents, in insertion order
    board_components,     \* statuspage.io: component id -> status
    board_incidents,      \* statuspage.io: the unresolved incidents
    next_id,              \* statuspage.io: id of the next incident it creates
    i,                    \* number of keys of most_recent_bulletin iterated
    required_model,       \* slamon.py:96 (its bulletin)
    open_incident,        \* slamon.py:98-103 (its id)
    component_status,     \* slamon.py:105,112
    impact,               \* slamon.py:109,113
    message,              \* slamon.py:110,114
    requests,             \* history: PATCH/POST requests of this iteration
    failed                \* history: a board call of this iteration failed

schedvars == <<cls, datetime_, obj, prev_obj>>
pagevars  == <<called>>
lockvars  == <<API_LOCK, caller>>
nodevars  == <<thread, result>>
boardvars == <<board_components, board_incidents, next_id>>
spvars    == <<dryrun, sp_components, sp_active_incidents>>
localvars == <<i, required_model, open_incident, component_status, impact, message>>
histvars  == <<requests, failed>>
mainvars  == <<pc, exc, now, nodevars, most_recent_bulletin, lost, spvars,
               boardvars, localvars, histvars>>
othervars == <<schedvars, pagevars, lockvars>>
vars      == <<mainvars, othervars>>

---------------------------------------------------------------------------
(* Bounds of the model.                                                    *)

NumNodes == 2       \* nodes in the configuration
SchedDays == 2      \* SpecSched: instants range over -SchedDays .. SchedDays days
SchedStep == 5      \* SpecSched: instants are the multiples of SchedStep minutes
NumCallers == 3     \* SpecLock: threads calling the board
MaxCreated == 1     \* SpecPage: incidents the client may create

---------------------------------------------------------------------------
(* Values.                                                                 *)

False_ == -999999            \* ModelRun.bulletin before any observation
None_ == -999998             \* dict.get(key, None) of a missing key
NoIncident == 0              \* open_incident = False
MinutesPerHour == 60
MinutesPerDay == 1440

Max(S) == CHOOSE x \in S : \A y \in S : y <= x
Min(S) == CHOOSE x \in S : \A y \in S : x <= y
Range(s) == {s[k] : k \in DOMAIN s}

\* the date of an instant, and datetime.datetime(y, m, d, hour=h, tzinfo=utc)
date(t) == t \div MinutesPerDay
datetime(d, h) == d * MinutesPerDay + h * MinutesPerHour

---------------------------------------------------------------------------
(* src/slamon/modelrun.py: the classes.                                    *)

Classes == {"ModelRun", "MEPSdet", "MEPSdetpp", "MEPSens", "AAdet", "AAdetpp"}

NAME(c) ==
    CASE c = "ModelRun"  -> "MODEL NAME"
      [] c = "MEPSdet"   -> "MEPS deterministic"
      [] c = "MEPSdetpp" -> "MEPS deterministic post processed"
      [] c = "MEPSens"   -> "MEPS ensemble"
      [] c = "AAdet"     -> "Arome Arctic deterministic"
      [] c = "AAdetpp"   -> "Arome Arctic deterministic post processed"

EXPECTED(c) ==
    CASE c = "ModelRun"  -> 2 * MinutesPerHour + 20
      [] c = "MEPSdet"   -> 3 * MinutesPerHour
      [] c = "MEPSdetpp" -> 45
      [] c = "MEPSens"   -> 5 * MinutesPerHour + 10
      [] c = "AAdet"     -> 3 * MinutesPerHour + 30
      [] c = "AAdetpp"   -> 3 * MinutesPerHour + 30

WARNING_AFTER == 15
ERROR_AFTER == 60

URL(c) ==
    CASE c = "ModelRun"  -> "http://thredds/catalog.xml"
      [] c = "MEPSdet"   -> "mepslatest"
      [] c = "MEPSdetpp" -> "metpplatest"
      [] c = "MEPSens"   -> "mepslatest"
      [] c = "AAdet"     -> "aromearcticlatest"
      [] c = "AAdetpp"   -> "aromearcticlatest"

STATUSPAGE_ID(c) ==
    CASE c = "ModelRun"  -> "None"
      [] c = "MEPSdet"   -> "bcsflmrp5rgk"
      [] c = "MEPSdetpp" -> "hdt6qj6f7zv5"
      [] c = "MEPSens"   -> "6bb2dq9t7vx9"
      [] c = "AAdet"     -> "5w7hh6w1f3fr"
      [] c = "AAdetpp"   -> "n1wsnn6gr8p9"

INIT_HOURS(c) ==
    CASE c \in {"ModelRun", "AAdet", "AAdetpp"} -> {0, 6, 12, 18}
      [] c \in {"MEPSdet", "MEPSens"}           -> {h \in 0..23 : h % 3 = 0}
      [] c = "MEPSdetpp"                        -> 0..23

---------------------------------------------------------------------------
(* src/slamon/modelrun.py: ModelRun.required, prev, is_delayed.            *)

\* init_hours.sort(reverse=True)
RECURSIVE sort_reverse(_)
sort_reverse(S) ==
    IF S = {} THEN <<>> ELSE <<Max(S)>> \o sort_reverse(S \ {Max(S)})

\* the for loop of required(): the first hour, from position k on, whose
\* instant ON datetime_'s DATE is not after utctime; False_ if there is none
RECURSIVE scan_init_hours(_, _, _, _)
scan_init_hours(init_hours, k, d, utctime) ==
    IF k > Len(init_hours) THEN False_
    ELSE IF utctime >= datetime(d, init_hours[k]) THEN datetime(d, init_hours[k])
    ELSE scan_init_hours(init_hours, k + 1, d, utctime)

\* list(cls.INIT_HOURS), sorted: the same at every call
init_hours_of == [c \in Classes |-> sort_reverse(INIT_HOURS(c))]

\* a faulty variant of required: the fallback takes the last init hour of
\* the day of datetime_
required_same_day(c, dt) ==
    LET utctime == dt - EXPECTED(c) - WARNING_AFTER
        init_hours == init_hours_of[c]
        found == scan_init_hours(init_hours, 1, date(dt), utctime)
    IN  IF found # False_ THEN found ELSE datetime(date(dt), init_hours[1])

required(c, dt) ==
    LET utctime    == dt - EXPECTED(c) - WARNING_AFTER
        init_hours == init_hours_of[c]
        found      == scan_init_hours(init_hours, 1, date(dt), utctime)
        yesterday  == utctime - MinutesPerDay
    IN  IF found # False_ THEN found
        ELSE datetime(date(yesterday), init_hours[1])

\* self.required(self.bulletin)
\* a faulty variant of prev: it makes up for the latency that required
\* subtracts
prev_at_bulletin(c, bulletin) == required(c, bulletin + EXPECTED(c) + WARNING_AFTER)

prev(c, bulletin) == required(c, bulletin)

is_delayed(c, bulletin, dt) == bulletin + EXPECTED(c) + ERROR_AFTER <= dt

---------------------------------------------------------------------------
(* SpecSched: required() applied to every class and a range of instants.   *)

SchedTimes ==
    {t \in (0 - SchedDays * MinutesPerDay) .. (SchedDays * MinutesPerDay) :
        t % SchedStep = 0}

\* obj = cls.required(datetime_)
CallRequired ==
    /\ obj = False_
    /\ obj' = required(cls, datetime_)
    /\ UNCHANGED <<cls, datetime_, prev_obj, mainvars, pagevars, lockvars>>

\* prev_obj = obj.prev()
CallPrev ==
    /\ obj # False_
    /\ prev_obj = False_
    /\ prev_obj' = prev(cls, obj)
    /\ UNCHANGED <<cls, datetime_, obj, mainvars, pagevars, lockvars>>

\* the caller moves on to another class and instant
NextCall ==
    /\ obj # False_
    /\ cls' \in Classes
    /\ datetime_' = datetime_ + SchedStep
    /\ datetime_' \in SchedTimes
    /\ obj' = False_
    /\ prev_obj' = False_
    /\ UNCHANGED <<mainvars, pagevars, lockvars>>

SchedNext == CallRequired \/ CallPrev \/ NextCall

---------------------------------------------------------------------------
(* src/slamon.py:84-88: the models and the nodes of a pass; and what its   *)
(* environment offers: the instants at which passes run and the bulletins  *)
(* the thredds catalogs may list.                                          *)

models == <<"MEPSdet", "MEPSdetpp", "MEPSens", "AAdet", "AAdetpp">>
Models == Range(models)
Nodes == 1 .. NumNodes

Times == {600, 740}               \* 10:00 and 12:20 of day 0

\* the bulletins a catalog may list for a model (the datasets of the
\* other three are missing from every catalog)
Datasets(m) ==
    CASE m = "MEPSdetpp" -> {540, 660}        \* 09:00 and 11:00
      [] m = "AAdet"     -> {0, 360}          \* 00:00 and 06:00
      [] OTHER           -> {}

EmptyDict == [x \in {} |-> False_]
put(dct, key, value) ==
    [x \in DOMAIN dct \cup {key} |-> IF x = key THEN value ELSE dct[x]]

---------------------------------------------------------------------------
(* src/slamon/thredds.py: ApplicationNode.                                 *)

\* the URLs fetch() requests, in the order it meets them (lines 40-42: a
\* URL already in self.urls is not requested again)
RECURSIVE url_order(_, _)
url_order(k, seen) ==
    IF k > Len(models) THEN <<>>
    ELSE IF URL(models[k]) \in seen THEN url_order(k + 1, seen)
    ELSE <<URL(models[k])>> \o url_order(k + 1, seen \cup {URL(models[k])})

\* __callback on the datasets of one model: keep the most recent bulletin
RECURSIVE callback(_, _)
callback(bulletin, datasets) ==
    IF datasets = {} THEN bulletin
    ELSE LET b == CHOOSE x \in datasets : TRUE
         IN  callback(IF bulletin = False_ \/ b > bulletin THEN b ELSE bulletin,
                      datasets \ {b})

\* what the catalogs may list at instant t: for each model of ms, some of
\* its datasets whose bulletin is not after t
RECURSIVE catalogs(_, _)
catalogs(ms, t) ==
    IF ms = {} THEN {EmptyDict}
    ELSE LET m == CHOOSE x \in ms : TRUE
         IN  {put(f, m, d) : f \in catalogs(ms \ {m}, t),
                             d \in SUBSET {x \in Datasets(m) : x <= t}}

\* ApplicationNode.fetch on a node whose result is res, at instant t: the
\* first k URLs answer, with catalogs listing the datasets cat[m] of each
\* model m; if k is not all of them the next request raises.
fetch_outcomes(res, t) ==
    LET order == url_order(1, {})
    IN  {[raised |-> k < Len(order),
          result |-> [m \in Models |->
                          IF \E j \in 1 .. k : order[j] = URL(m)
                          THEN callback(res[m], cat[m]) ELSE res[m]]] :
            k \in 0 .. Len(order), cat \in catalogs(Models, t)}

\* fetch on a node as ApplicationNode.__init__ leaves it (lines 22-25)
FetchOutcomes == [t \in Times |-> fetch_outcomes([m \in Models |-> False_], t)]

\* the thread of node n runs fetch; an exception ends the thread
fetch(n) ==
    /\ pc = "fetch"
    /\ thread[n] = "started"
    /\ \E out \in FetchOutcomes[now] :
          /\ result' = [result EXCEPT ![n] = out.result]
          /\ thread' = [thread EXCEPT ![n] = IF out.raised THEN "raised" ELSE "done"]
    /\ UNCHANGED <<pc, exc, now, most_recent_bulletin, lost, spvars, boardvars,
                   localvars, histvars, othervars>>

---------------------------------------------------------------------------
(* src/slamon.py:45-69: extract_most_recent_bulletin.                      *)

\* _bulletin(dct, key)
bulletin_of(dct, key) == IF key \in DOMAIN dct THEN dct[key] ELSE None_

\* a faulty variant of keeps_candidate: keeps the more recent bulletin
keeps_candidate_newer(kept_bulletin, candidate_bulletin) ==
    /\ candidate_bulletin # False_
    /\ kept_bulletin = None_ \/ candidate_bulletin > kept_bulletin

\* a faulty variant of keeps_candidate: without the test of line 62, the
\* first node's object is stored even if its bulletin is unset
keeps_candidate_unset(kept_bulletin, candidate_bulletin) ==
    \/ kept_bulletin = None_
    \/ candidate_bulletin # False_ /\ candidate_bulletin < kept_bulletin

\* lines 62 and 66: does the candidate replace the kept bulletin?
keeps_candidate(kept_bulletin, candidate_bulletin) ==
    /\ candidate_bulletin # False_
    /\ kept_bulletin = None_ \/ candidate_bulletin < kept_bulletin

\* the inner loop, from node k on; res[k] is the result of the k-th node
RECURSIVE over_nodes(_, _, _, _)
over_nodes(mrb, model, res, k) ==
    IF k > Len(res) THEN mrb
    ELSE LET kept_bulletin      == bulletin_of(mrb, model)
             candidate_bulletin == bulletin_of(res[k], model)
         IN  over_nodes(IF keeps_candidate(kept_bulletin, candidate_bulletin)
                            THEN put(mrb, model, res[k][model]) ELSE mrb,
                        model, res, k + 1)

\* the outer loop, from model j on
RECURSIVE over_models(_, _, _, _)
over_models(mrb, mods, res, j) ==
    IF j > Len(mods) THEN mrb
    ELSE over_models(over_nodes(mrb, mods[j], res, 1), mods, res, j + 1)

extract_most_recent_bulletin(mods, res) == over_models(EmptyDict, mods, res, 1)

\* the keys of a dict filled in the order of mods, in insertion order
keys(dct) == SelectSeq(models, LAMBDA m : m \in DOMAIN dct)

---------------------------------------------------------------------------
(* src/slamon/statuspage.py: StatusPage, and statuspage.io behind it.      *)
(*                                                                         *)
(* The methods are operators on a record w of what they read and write:    *)
(*   bc, bi, nid    the board: component status, unresolved incidents,     *)
(*                  next incident id                                       *)
(*   spc, spi       __components and __active_incidents                    *)
(*   req            the PATCH and POST requests issued so far              *)
(*   exc            the exception being raised, "none" if none             *)
(*   err            whether a request has failed                           *)
(* A method called while an exception is being raised does nothing: the    *)
(* exception has left the caller.  ok says whether a request succeeds.     *)

ComponentStatuses ==
    {"operational", "degraded_performance", "partial_outage", "major_outage"}
IncidentStatuses == {"investigating", "identified", "monitoring", "resolved"}
Impacts == {"none", "minor", "major"}

raised(w) == w.exc # "none"
raise(w, e) == [w EXCEPT !.exc = e]

\* a PATCH or POST request: of a component or of an incident, with the
\* payload's name, status, message and impact_override (<<>>, "None": not sent)
Request(method, component, incident, name, status_, message_, impact_) ==
    [method |-> method, component |-> component, incident |-> incident,
     name |-> name, status |-> status_, message |-> message_, impact |-> impact_]

\* __call raising: HTTPError, a timeout or the RuntimeError of line 45
call_fails(w) == [w EXCEPT !.exc = "RequestError", !.err = TRUE]

\* __update_local_component_status
update_local_component_status(w, ok) ==
    IF raised(w) THEN w
    ELSE IF ~ok THEN call_fails(w)
    ELSE [w EXCEPT !.spc = [c \in DOMAIN w.spc \cup DOMAIN w.bc |->
                               IF c \in DOMAIN w.bc THEN w.bc[c] ELSE w.spc[c]]]

\* __update_local_incident_status
update_local_incident_status(w, ok) ==
    IF raised(w) THEN w
    ELSE IF ~ok THEN call_fails(w)
    ELSE [w EXCEPT !.spi = [k \in 1 .. Len(w.bi) |->
                               [id |-> w.bi[k].id, title |-> w.bi[k].name,
                                affected_components |-> w.bi[k].components]]]

get_incidents_for_component(active_incidents, component_id) ==
    SelectSeq(active_incidents, LAMBDA inc : component_id \in inc.affected_components)

\* __get_status
get_status(w, component_id) ==
    IF component_id \in DOMAIN w.spc THEN w.spc[component_id] ELSE "None"

\* __set_status: the bare except swallows a failed request
set_status(w, dry, component_id, new_status, ok) ==
    IF raised(w) THEN w
    ELSE IF new_status \notin ComponentStatuses THEN raise(w, "AssertionError")
    ELSE IF dry THEN w
    ELSE LET w1 == [w EXCEPT !.req = Append(@,
                       Request("patch", component_id, NoIncident, <<>>,
                               new_status, "None", "None"))]
         IN  IF ok THEN [w1 EXCEPT !.bc[component_id] = new_status]
             ELSE [w1 EXCEPT !.err = TRUE]

\* status(component_id, new_status)
status(w, dry, component_id, new_status, ok1, ok2) ==
    update_local_component_status(set_status(w, dry, component_id, new_status, ok1), ok2)

\* statuspage.io applying the PATCH of an incident: a resolved incident leaves
\* the unresolved ones
patch_incident(incidents, incident_id, payload) ==
    LET upd(inc) ==
            IF inc.id # incident_id THEN inc
            ELSE [inc EXCEPT
                    !.status  = IF payload.status # "None" THEN payload.status ELSE @,
                    !.message = IF payload.message # "None" THEN payload.message ELSE @,
                    !.impact  = IF payload.impact # "None" THEN payload.impact ELSE @]
        all == [k \in 1 .. Len(incidents) |-> upd(incidents[k])]
    IN  SelectSeq(all, LAMBDA inc : inc.status # "resolved")

\* a faulty variant of update_incident: without the dryrun test of line 151
update_incident_when_dry(w, dry, incident_id, status_, message_, impact_, ok) ==
    IF raised(w) THEN w
    ELSE IF status_ # "None" /\ status_ \notin IncidentStatuses
        THEN raise(w, "AssertionError")
    ELSE IF impact_ # "None" /\ impact_ \notin Impacts
        THEN raise(w, "AssertionError")
    ELSE IF status_ = "None" /\ message_ = "None" /\ impact_ = "None" THEN w
    ELSE LET payload == [status |-> status_, message |-> message_, impact |-> impact_]
             w1 == [w EXCEPT !.req = Append(@,
                       Request("patch", "None", incident_id, <<>>,
                               status_, message_, impact_))]
         IN  IF ~ok THEN call_fails(w1)
             ELSE [w1 EXCEPT !.bi = patch_incident(@, incident_id, payload)]

update_incident(w, dry, incident_id, status_, message_, impact_, ok) ==
    IF raised(w) THEN w
    ELSE IF status_ # "None" /\ status_ \notin IncidentStatuses
        THEN raise(w, "AssertionError")
    ELSE IF impact_ # "None" /\ impact_ \notin Impacts
        THEN raise(w, "AssertionError")
    ELSE IF status_ = "None" /\ message_ = "None" /\ impact_ = "None" THEN w
    ELSE IF dry THEN w
    ELSE LET payload == [status |-> status_, message |-> message_, impact |-> impact_]
             w1 == [w EXCEPT !.req = Append(@,
                       Request("patch", "None", incident_id, <<>>,
                               status_, message_, impact_))]
         IN  IF ~ok THEN call_fails(w1)
             ELSE [w1 EXCEPT !.bi = patch_incident(@, incident_id, payload)]

resolve_incident(w, dry, incident_id, ok) ==
    update_incident(w, dry, incident_id, "resolved", "incident has been resolved",
                    "None", ok)

create_incident(w, dry, component_id, title, message_, impact_, ok1, ok2) ==
    IF raised(w) THEN w
    ELSE IF impact_ # "None" /\ impact_ \notin Impacts THEN raise(w, "AssertionError")
    ELSE IF dry THEN w
    ELSE LET w1 == [w EXCEPT !.req = Append(@,
                       Request("post", component_id, NoIncident, title,
                               "investigating", message_, impact_))]
         IN  IF ~ok1 THEN call_fails(w1)
             ELSE update_local_incident_status(
                    [w1 EXCEPT !.nid = @ + 1,
                               !.bi = Append(@, [id |-> w.nid, name |-> title,
                                                 components |-> {component_id},
                                                 status |-> "investigating",
                                                 message |-> message_,
                                                 impact |-> impact_])],
                    ok2)

---------------------------------------------------------------------------
(* src/slamon.py:71-122: resolve and the body of main's loop.              *)

title(m) == <<NAME(m), "production">>          \* '{} production'.format(NAME)

\* lines 98-103: the first open incident of the component with the title
find_open_incident(active_incidents, m) ==
    LET titled == SelectSeq(get_incidents_for_component(active_incidents,
                                                        STATUSPAGE_ID(m)),
                            LAMBDA inc : inc.title = title(m))
    IN  IF titled = <<>> THEN NoIncident ELSE titled[1].id

\* a faulty variant of resolve: leaves the open incident alone
resolve_status_only(w, dry, m, cs, incident, ok) ==
    IF get_status(w, STATUSPAGE_ID(m)) # cs
    THEN status(w, dry, STATUSPAGE_ID(m), cs, ok[1], ok[2])
    ELSE w

\* a faulty variant of resolve: pushes the status without comparing it
resolve_always_pushes(w, dry, m, cs, incident, ok) ==
    LET w1 == status(w, dry, STATUSPAGE_ID(m), cs, ok[1], ok[2])
    IN  IF incident # NoIncident THEN resolve_incident(w1, dry, incident, ok[3])
        ELSE w1

\* resolve(statuspage, model, component_status, open_incident)
resolve(w, dry, m, cs, incident, ok) ==
    LET w1 == IF get_status(w, STATUSPAGE_ID(m)) # cs
              THEN status(w, dry, STATUSPAGE_ID(m), cs, ok[1], ok[2])
              ELSE w
    IN  IF incident # NoIncident THEN resolve_incident(w1, dry, incident, ok[3])
        ELSE w1

\* model.bulletin, looked up on the class (line 110): no class of modelrun.py
\* has a class attribute bulletin, only __init__ sets it, on instances
class_bulletin(m) == "AttributeError"

MILD == "is not yet published. Normally we would expect it by now."
SIGNIFICANT == "is not yet published. This is a significant delay"

\* lines 111-114: the significant delay
escalate(w, m, t, required_bulletin, consensus) ==
    IF \/ is_delayed(m, required_bulletin, t)
       \/ prev(m, required_bulletin) > consensus
    THEN [w EXCEPT !.cs = "degraded_performance", !.imp = "minor",
                   !.msg = SIGNIFICANT]
    ELSE [w EXCEPT !.msg = MILD]

\* lines 116-122
reconcile(w, dry, m, incident, ok) ==
    IF incident # NoIncident
    THEN IF get_status(w, STATUSPAGE_ID(m)) # w.cs
         THEN \* line 119 passes message as update_incident's status
              update_incident(
                  status(w, dry, STATUSPAGE_ID(m), w.cs, ok[1], ok[2]),
                  dry, incident, w.msg, "None", w.imp, ok[3])
         ELSE w
    ELSE create_incident(
             status(w, dry, STATUSPAGE_ID(m), w.cs, ok[1], ok[2]),
             dry, STATUSPAGE_ID(m), title(m), w.msg, w.imp, ok[3], ok[4])

\* a faulty variant of main_degraded: formats the required bulletin, which
\* does not raise, and creates an incident whether or not one is open
main_degraded_creates_again(w, dry, m, t, required_bulletin, consensus, incident, ok) ==
    reconcile(escalate([w EXCEPT !.imp = "none"], m, t, required_bulletin, consensus),
              dry, m, NoIncident, ok)

\* a faulty variant of main_degraded: formats the required bulletin, which
\* does not raise, and pushes the status of a component with an open
\* incident without comparing it
main_degraded_always_pushes(w, dry, m, t, required_bulletin, consensus, incident, ok) ==
    LET w1 == escalate([w EXCEPT !.imp = "none"], m, t, required_bulletin, consensus)
    IN  IF incident # NoIncident
        THEN update_incident(
                 status(w1, dry, STATUSPAGE_ID(m), w1.cs, ok[1], ok[2]),
                 dry, incident, "None", w1.msg, w1.imp, ok[3])
        ELSE reconcile(w1, dry, m, incident, ok)

\* a faulty variant of main_degraded: degraded_performance and minor are
\* the defaults
main_degraded_minor_default(w, dry, m, t, required_bulletin, consensus, incident, ok) ==
    raise([w EXCEPT !.cs = "degraded_performance", !.imp = "minor"],
          "AttributeError")

\* lines 108-122, with the locals component_status, impact and message in
\* w.cs, w.imp and w.msg; t is now.  Line 110 raises before anything else
\* is done.
main_degraded(w, dry, m, t, required_bulletin, consensus, incident, ok) ==
    LET w0 == [w EXCEPT !.imp = "none"]
    IN  IF class_bulletin(m) = "AttributeError" THEN raise(w0, "AttributeError")
        ELSE reconcile(escalate(w0, m, t, required_bulletin, consensus),
                       dry, m, incident, ok)

---------------------------------------------------------------------------
(* src/slamon.py:80-122: main, one pass after another.                     *)

NoResult == [n \in Nodes |-> [m \in Models |-> False_]]

\* lines 83-88 and 39-41: now, the nodes, and their threads started
StartPass ==
    /\ pc \in {"idle", "done", "crashed"}
    /\ now' \in {t \in Times : t >= now}
    /\ pc' = "fetch"
    /\ exc' = "none"
    /\ thread' = [n \in Nodes |-> "started"]
    /\ result' = NoResult
    /\ most_recent_bulletin' = EmptyDict
    /\ lost' = {}
    /\ dryrun' = FALSE
    /\ sp_components' = EmptyDict
    /\ sp_active_incidents' = <<>>
    /\ i' = 0
    /\ required_model' = False_
    /\ open_incident' = NoIncident
    /\ component_status' = "None"
    /\ impact' = "None"
    /\ message' = "None"
    /\ requests' = <<>>
    /\ failed' = FALSE
    /\ UNCHANGED <<boardvars, othervars>>

\* a faulty variant of Extract: the consensus without the joins of lines
\* 42-43
Extract_without_join ==
    /\ pc = "fetch"
    /\ most_recent_bulletin' =
           extract_most_recent_bulletin(models, [n \in Nodes |-> result[n]])
    /\ lost' = {m \in Models :
                   \E n \in Nodes : thread[n] = "raised" /\ result[n][m] = False_}
    /\ pc' = "extracted"
    /\ UNCHANGED <<exc, now, nodevars, spvars, boardvars, localvars, histvars,
                   othervars>>

\* lines 42-43 and 91: every thread joined, raised or not, then the consensus
Extract ==
    /\ pc = "fetch"
    /\ \A n \in Nodes : thread[n] # "started"
    /\ most_recent_bulletin' =
           extract_most_recent_bulletin(models, [n \in Nodes |-> result[n]])
    /\ lost' = {m \in Models :
                   \E n \in Nodes : thread[n] = "raised" /\ result[n][m] = False_}
    /\ pc' = "extracted"
    /\ UNCHANGED <<exc, now, nodevars, spvars, boardvars, localvars, histvars,
                   othervars>>

World ==
    [bc |-> board_components, bi |-> board_incidents, nid |-> next_id,
     spc |-> sp_components, spi |-> sp_active_incidents,
     req |-> <<>>, exc |-> "none", err |-> FALSE,
     cs |-> "operational", imp |-> "None", msg |-> "None"]

Commit(w) ==
    /\ board_components' = w.bc
    /\ board_incidents' = w.bi
    /\ next_id' = w.nid
    /\ sp_components' = w.spc
    /\ sp_active_incidents' = w.spi
    /\ requests' = w.req
    /\ failed' = w.err
    /\ exc' = w.exc
    /\ pc' = IF raised(w) THEN "crashed" ELSE "loop"

\* line 93: StatusPage(dryrun=..): __init__ reads the components and the
\* unresolved incidents.  The nodes are not read after line 91: forgotten.
Construct ==
    /\ pc = "extracted"
    /\ \E dry, ok1, ok2 \in BOOLEAN :
          /\ dryrun' = dry
          /\ Commit(update_local_incident_status(
                        update_local_component_status(World, ok1), ok2))
    /\ thread' = [n \in Nodes |-> "joined"]
    /\ result' = NoResult
    /\ UNCHANGED <<now, most_recent_bulletin, lost, localvars, othervars>>

\* the model of the next iteration of the loop of line 94
NextModel == keys(most_recent_bulletin)[i + 1]

\* lines 94-107: an iteration that finds the model on time
IterateHealthy ==
    /\ pc = "loop"
    /\ i < Len(keys(most_recent_bulletin))
    /\ most_recent_bulletin[NextModel] >= required(NextModel, now)
    /\ \E ok \in [1 .. 3 -> BOOLEAN] :
          LET m        == NextModel
              incident == find_open_incident(sp_active_incidents, m)
              w        == resolve(World, dryrun, m, "operational", incident, ok)
          IN  /\ Commit(w)
              /\ i' = i + 1
              /\ required_model' = required(m, now)
              /\ open_incident' = incident
              /\ component_status' = w.cs
              /\ impact' = w.imp
              /\ message' = w.msg
    /\ UNCHANGED <<now, nodevars, most_recent_bulletin, lost, dryrun, othervars>>

\* lines 94-104 and 108-122: an iteration that finds the model behind
IterateDegraded ==
    /\ pc = "loop"
    /\ i < Len(keys(most_recent_bulletin))
    /\ ~(most_recent_bulletin[NextModel] >= required(NextModel, now))
    /\ \E ok \in [1 .. 4 -> BOOLEAN] :
          LET m        == NextModel
              incident == find_open_incident(sp_active_incidents, m)
              w        == main_degraded(World, dryrun, m, now, required(m, now),
                                        most_recent_bulletin[m], incident, ok)
          IN  /\ Commit(w)
              /\ i' = i + 1
              /\ required_model' = required(m, now)
              /\ open_incident' = incident
              /\ component_status' = w.cs
              /\ impact' = w.imp
              /\ message' = w.msg
    /\ UNCHANGED <<now, nodevars, most_recent_bulletin, lost, dryrun, othervars>>

\* the loop is over: main returns
Return ==
    /\ pc = "loop"
    /\ i = Len(keys(most_recent_bulletin))
    /\ pc' = "done"
    /\ UNCHANGED <<exc, now, nodevars, most_recent_bulletin, lost, spvars,
                   boardvars, localvars, histvars, othervars>>

---------------------------------------------------------------------------
(* SpecPage: a client that calls the public methods of one StatusPage      *)
(* object in any order, catching what they raise.                          *)

PageComponents == {STATUSPAGE_ID(m) : m \in {x \in Models : Datasets(x) # {}}}

\* the ids the client uses: those of the incidents with the title of a
\* model that get_incidents_for_component yields for its component
PageIncidents ==
    {find_open_incident(sp_active_incidents, m) : m \in Models} \ {NoIncident}

\* the arguments status, message and impact of its update_incident calls
PageUpdates ==
    {<<"None", "None", "None">>, <<"None", SIGNIFICANT, "minor">>}

\* the first id statuspage.io gives to an incident created by the client
FirstCreated == Len(models) + 2

PageCommit(w, method) ==
    /\ board_components' = w.bc
    /\ board_incidents' = w.bi
    /\ next_id' = w.nid
    /\ sp_components' = w.spc
    /\ sp_active_incidents' = w.spi
    /\ requests' = w.req
    /\ failed' = w.err
    /\ exc' = w.exc
    /\ called' = method
    /\ UNCHANGED <<pc, now, nodevars, most_recent_bulletin, lost, dryrun,
                   localvars, schedvars, lockvars>>

\* statuspage.status(component_id, new_status)
PageStatus ==
    /\ PageComponents # {}
    /\ \E c \in PageComponents,
          new_status \in {"operational", "degraded_performance"},
          ok1, ok2 \in BOOLEAN :
           PageCommit(status(World, dryrun, c, new_status, ok1, ok2), "status")

\* statuspage.create_incident(component_id, title, message, impact=impact)
PageCreate ==
    /\ next_id < FirstCreated + MaxCreated
    /\ \E m \in Models, ok1, ok2 \in BOOLEAN :
          /\ STATUSPAGE_ID(m) \in PageComponents
          /\ PageCommit(create_incident(World, dryrun, STATUSPAGE_ID(m), title(m),
                                        MILD, "minor", ok1, ok2),
                        "create_incident")

\* statuspage.update_incident(incident_id, status, message, impact)
PageUpdate ==
    \E incident \in PageIncidents, args \in PageUpdates, ok \in BOOLEAN :
        PageCommit(update_incident(World, dryrun, incident, args[1], args[2],
                                   args[3], ok),
                   "update_incident")

\* statuspage.resolve_incident(incident_id)
PageResolve ==
    \E incident \in PageIncidents, ok \in BOOLEAN :
        PageCommit(resolve_incident(World, dryrun, incident, ok), "resolve_incident")

PageNext == PageStatus \/ PageCreate \/ PageUpdate \/ PageResolve

---------------------------------------------------------------------------
(* SpecLock: src/slamon/statuspage.py:38-46, threads in __call, of any     *)
(* StatusPage object: API_LOCK is an attribute of the class.               *)
(*                                                                         *)
(* caller[c] is "with" at line 39 (waiting for the semaphore), "sleep" at  *)
(* line 40, "request" at line 41 (the request is in flight), and outside   *)
(* __call "out", "returned" or "raised" (how its last call ended).         *)

Callers == 1 .. NumCallers

at(c, from, to) ==
    /\ caller[c] \in from
    /\ caller' = [caller EXCEPT ![c] = to]

\* a method calls self.__call(url, ...)
Enter(c) ==
    /\ at(c, {"out", "returned", "raised"}, "with")
    /\ UNCHANGED <<API_LOCK, mainvars, schedvars, pagevars>>

\* line 39: API_LOCK.__enter__, which blocks while the value is 0
Acquire(c) ==
    /\ API_LOCK > 0
    /\ at(c, {"with"}, "sleep")
    /\ API_LOCK' = API_LOCK - 1
    /\ UNCHANGED <<mainvars, schedvars, pagevars>>

\* line 40 is over, line 41 sends the request
Send(c) ==
    /\ at(c, {"sleep"}, "request")
    /\ UNCHANGED <<API_LOCK, mainvars, schedvars, pagevars>>

\* lines 41-46 without exception: return result, through API_LOCK.__exit__
Respond(c) ==
    /\ at(c, {"request"}, "returned")
    /\ API_LOCK' = API_LOCK + 1
    /\ UNCHANGED <<mainvars, schedvars, pagevars>>

\* a faulty variant of Fail: the exception leaves __call without release
Fail_keeps_lock(c) ==
    /\ at(c, {"request"}, "raised")
    /\ UNCHANGED <<API_LOCK, mainvars, schedvars, pagevars>>

\* lines 41, 42 or 45 raise (timeout, HTTPError, RuntimeError): the
\* exception leaves the with statement through API_LOCK.__exit__
Fail(c) ==
    /\ at(c, {"request"}, "raised")
    /\ API_LOCK' = API_LOCK + 1
    /\ UNCHANGED <<mainvars, schedvars, pagevars>>

LockNext ==
    \E c \in Callers :
        Enter(c) \/ Acquire(c) \/ Send(c) \/ Respond(c) \/ Fail(c)

---------------------------------------------------------------------------
(* The specifications.                                                     *)

\* the models whose datasets some catalog may list
Published == {m \in Models : Datasets(m) # {}}

\* an incident of somebody else on the component of MEPSdetpp: statuspage.io
\* is not slamon's alone
Maintenance ==
    [id |-> 1, name |-> <<"Scheduled", "maintenance">>,
     components |-> {STATUSPAGE_ID("MEPSdetpp")}, status |-> "identified",
     message |-> "maintenance", impact |-> "none"]

\* an open incident with the title of slamon's own, on the component of
\* models[k]
Production(k) ==
    [id |-> k + 1, name |-> title(models[k]),
     components |-> {STATUSPAGE_ID(models[k])},
     status |-> "investigating", message |-> MILD, impact |-> "none"]

\* the unresolved incidents of a board that has Production incidents
\* for the models of ms (at most one each), after Maintenance
RECURSIVE incidents_of(_, _)
incidents_of(ms, k) ==
    IF k > Len(models) THEN <<>>
    ELSE IF models[k] \in ms THEN <<Production(k)>> \o incidents_of(ms, k + 1)
    ELSE incidents_of(ms, k + 1)

\* The board before the first pass: every component whose model is published
\* is degraded or has a Production incident (or both), the others are
\* operational without one.  An operational component of a published model
\* without Production incident is therefore the work of an earlier pass.
BoardInit ==
    \E ms \in SUBSET Published :
       /\ board_components \in
              {f \in [{STATUSPAGE_ID(m) : m \in Models} ->
                          {"operational", "degraded_performance"}] :
                  \A m \in Models :
                     IF m \in Published
                     THEN f[STATUSPAGE_ID(m)] = "operational" => m \in ms
                     ELSE f[STATUSPAGE_ID(m)] = "operational"}
       /\ board_incidents = <<Maintenance>> \o incidents_of(ms, 1)
       /\ next_id = Len(models) + 2

MainInit ==
    /\ pc = "idle"
    /\ exc = "none"
    /\ now = 0
    /\ thread = [n \in Nodes |-> "joined"]
    /\ result = NoResult
    /\ most_recent_bulletin = EmptyDict
    /\ lost = {}
    /\ dryrun = FALSE
    /\ sp_components = EmptyDict
    /\ sp_active_incidents = <<>>
    /\ i = 0
    /\ required_model = False_
    /\ open_incident = NoIncident
    /\ component_status = "None"
    /\ impact = "None"
    /\ message = "None"
    /\ requests = <<>>
    /\ failed = FALSE

\* nobody has called required, a StatusPage method or __call
NoSched ==
    /\ cls = "ModelRun"
    /\ datetime_ = 0
    /\ obj = False_
    /\ prev_obj = False_

NoPage == called = "none"

NoLock ==
    /\ API_LOCK = 1                               \* threading.Semaphore()
    /\ caller = [c \in 1 .. NumCallers |-> "out"]

Init ==
    /\ MainInit
    /\ BoardInit
    /\ NoSched
    /\ NoPage
    /\ NoLock

Next ==
    \/ StartPass
    \/ \E n \in Nodes : fetch(n)
    \/ Extract
    \/ Construct
    \/ IterateHealthy
    \/ IterateDegraded
    \/ Return

Spec == Init /\ [][Next]_vars

\* a StatusPage object as __init__ (lines 27-36) leaves it, dry or not, on
\* some board
PageInit ==
    /\ BoardInit
    /\ dryrun \in BOOLEAN
    /\ sp_components = board_components
    /\ sp_active_incidents =
           [k \in 1 .. Len(board_incidents) |->
               [id |-> board_incidents[k].id, title |-> board_incidents[k].name,
                affected_components |-> board_incidents[k].components]]
    /\ pc = "idle"
    /\ exc = "none"
    /\ now = 0
    /\ thread = [n \in Nodes |-> "joined"]
    /\ result = NoResult
    /\ most_recent_bulletin = EmptyDict
    /\ lost = {}
    /\ i = 0
    /\ required_model = False_
    /\ open_incident = NoIncident
    /\ component_status = "None"
    /\ impact = "None"
    /\ message = "None"
    /\ requests = <<>>
    /\ failed = FALSE
    /\ NoSched
    /\ NoPage
    /\ NoLock

SpecPage == PageInit /\ [][PageNext]_vars

LockInit ==
    /\ MainInit
    /\ board_components = [c \in {STATUSPAGE_ID(m) : m \in Models} |-> "operational"]
    /\ board_incidents = <<>>
    /\ next_id = 1
    /\ NoSched
    /\ NoPage
    /\ NoLock

SpecLock == LockInit /\ [][LockNext]_vars

SchedInit ==
    /\ MainInit
    /\ board_components = [c \in {STATUSPAGE_ID(m) : m \in Models} |-> "operational"]
    /\ board_incidents = <<>>
    /\ next_id = 1
    /\ cls \in Classes
    /\ datetime_ \in SchedTimes
    /\ obj = False_
    /\ prev_obj = False_
    /\ NoPage
    /\ NoLock

SpecSched == SchedInit /\ [][SchedNext]_vars

---------------------------------------------------------------------------
(* The schedule: what required returns, against the latest instant of the  *)
(* cadence at or before the cutoff.                                        *)

\* t is an instant of the cadence of class c
on_cadence(c, t) ==
    /\ t % MinutesPerHour = 0
    /\ (t % MinutesPerDay) \div MinutesPerHour \in INIT_HOURS(c)

\* the cutoff of the required run at dt
cutoff(c, dt) == dt - EXPECTED(c) - WARNING_AFTER

\* the latest instant of the cadence of c at or before t
latest_on_cadence(c, t) ==
    Max({x \in {datetime(d, h) : d \in {date(t) - 1, date(t)}, h \in INIT_HOURS(c)} :
            x <= t})

\* C1: whatever the class and the instant, required returns the latest
\* instant of the cadence that is at or before the instant minus EXPECTED
\* minus WARNING_AFTER (a 3-hourly class at 1970-01-01T00:00Z would get
\* 1969-12-31T18:00Z).  The fallback of lines 56-58 breaks it.
C1_RequiredIsLatestAtCutoff ==
    obj # False_ => obj = latest_on_cadence(cls, cutoff(cls, datetime_))

\* the fallback of lines 56-58 has acted: no init hour of the day of
\* datetime was at or before the cutoff
C1_FallbackTaken ==
    /\ obj # False_
    /\ scan_init_hours(init_hours_of[cls], 1, date(datetime_),
                       cutoff(cls, datetime_)) = False_

\* the instants of the cadence of c strictly between t1 and t2
between_on_cadence(c, t1, t2) ==
    {x \in {datetime(d, h) : d \in date(t1) .. date(t2), h \in INIT_HOURS(c)} :
        t1 < x /\ x < t2}

\* C14: prev gives the instant of the cadence immediately before the
\* bulletin: no instant of the cadence lies strictly between the two.
\* prev is required at the bulletin, which steps back by EXPECTED and
\* WARNING_AFTER (and by the fallback of required, see C1).
C14_PrevImmediatelyBefore ==
    prev_obj # False_ => between_on_cadence(cls, prev_obj, obj) = {}

\* C15: the bulletin of required(T).prev() is strictly earlier than the
\* bulletin of required(T).
C15_PrevStrictlyEarlier ==
    prev_obj # False_ => prev_obj < obj

\* prev has been called on a bulletin that is an init hour of its class
C15_PrevCalled ==
    /\ prev_obj # False_
    /\ on_cadence(cls, obj)
    /\ prev_obj < obj

\* C16: the bulletin of required(T) is on the hour, at one of the init
\* hours of the class, and not after T - EXPECTED - WARNING_AFTER.
C16_RequiredOnCadenceAtCutoff ==
    obj # False_ =>
        /\ on_cadence(cls, obj)
        /\ obj <= cutoff(cls, datetime_)

\* required has returned from its fallback: a bulletin of an earlier day
C16_EarlierDay ==
    /\ obj # False_
    /\ date(obj) < date(datetime_)
    /\ on_cadence(cls, obj)

---------------------------------------------------------------------------
(* The consensus of line 91, looked at while the nodes are still there.    *)

observed(n, m) == result[n][m] # False_

observations(m) == {result[n][m] : n \in {k \in Nodes : observed(k, m)}}

\* C2: a model whose bulletin is unset on any node has no consensus; with no
\* node at all there is none either.  extract_most_recent_bulletin skips
\* the unset nodes instead (line 62) and keeps the minimum of the others.
C2_UnsetNodeNoConsensus ==
    pc = "extracted" =>
        \A m \in Models :
            (\E n \in Nodes : ~observed(n, m)) => m \notin DOMAIN most_recent_bulletin

\* C4: when every node has observed a model, its consensus is the minimum
\* of the observations, whatever the order of the nodes.
C4_ConsensusIsMinimum ==
    pc = "extracted" =>
        \A m \in Models :
            (\A n \in Nodes : observed(n, m)) =>
                /\ m \in DOMAIN most_recent_bulletin
                /\ most_recent_bulletin[m] = Min(observations(m))

\* every node has observed a model, not all the same bulletin, and a later
\* node of the list holds the minimum
C4_LaterNodeBehind ==
    /\ pc = "extracted"
    /\ \E m \in Models :
          /\ \A n \in Nodes : observed(n, m)
          /\ \E n1, n2 \in Nodes :
                /\ n1 < n2
                /\ result[n2][m] < result[n1][m]
                /\ most_recent_bulletin[m] = result[n2][m]

---------------------------------------------------------------------------
(* The iterations of the loop of line 94.                                  *)

\* the iteration for model m is the last that ran (to its end or to an
\* exception)
iterated(m) ==
    /\ pc \in {"loop", "crashed", "done"}
    /\ i > 0
    /\ keys(most_recent_bulletin)[i] = m

\* the condition of line 106, as that iteration evaluated it
on_time(m) == most_recent_bulletin[m] >= required_model

\* the condition of line 111, as that iteration would evaluate it
significant(m) ==
    \/ is_delayed(m, required_model, now)
    \/ prev(m, required_model) > most_recent_bulletin[m]

\* the component status that lines 105-112 want for a model that is behind
\* its required run req at now
wanted(m, req) ==
    escalate([cs |-> "operational", imp |-> "none", msg |-> "None"],
             m, now, req, most_recent_bulletin[m]).cs

is_status_patch(r, m, status_) ==
    r = Request("patch", STATUSPAGE_ID(m), NoIncident, <<>>, status_, "None", "None")

is_resolve_patch(r, incident) ==
    r = Request("patch", "None", incident, <<>>, "resolved",
                "incident has been resolved", "None")

is_create_post(r, m) ==
    /\ r.method = "post"
    /\ r.component = STATUSPAGE_ID(m)
    /\ r.name = title(m)

\* the unresolved incidents of the board with the title and the component of m
canonical(m) ==
    {k \in 1 .. Len(board_incidents) :
        /\ board_incidents[k].name = title(m)
        /\ STATUSPAGE_ID(m) \in board_incidents[k].components}

\* C3: a pass in which a node failed on a model's catalog before observing
\* it never takes the healthy path for that model.  It does, on the
\* observations of the other nodes (see C2).
C3_FailedNodeNeverHealthy ==
    \A m \in Models : iterated(m) /\ m \in lost => ~on_time(m)

\* C5: a model behind its required run, without open incident: the pass
\* pushes the status of the component and then creates one incident with
\* the title of the model.  Line 110 raises before either.
C5_DegradedCreatesIncident ==
    \A m \in Models :
        (iterated(m) /\ ~on_time(m) /\ open_incident = NoIncident /\ ~dryrun) =>
            /\ Len(requests) = 2
            /\ is_status_patch(requests[1], m, component_status)
            /\ is_create_post(requests[2], m)

iterates(m) ==
    /\ pc = "loop"
    /\ i < Len(keys(most_recent_bulletin))
    /\ NextModel = m
    /\ i' = i + 1

C8_HealthyResolves ==
    \A m \in Models :
        (iterated(m) /\ on_time(m) /\ open_incident # NoIncident
                     /\ ~dryrun /\ ~failed) =>
            /\ board_components[STATUSPAGE_ID(m)] = "operational"
            /\ \A k \in 1 .. Len(board_incidents) :
                  board_incidents[k].id # open_incident
            /\ canonical(m) = {}
            /\ \/ /\ Len(requests) = 1
                  /\ is_resolve_patch(requests[1], open_incident)
               \/ /\ Len(requests) = 2
                  /\ is_status_patch(requests[1], m, "operational")
                  /\ is_resolve_patch(requests[2], open_incident)

\* the recovery of a degraded component: status pushed, incident resolved
C8_Recovered ==
    \E m \in Models :
        /\ iterated(m) /\ on_time(m)
        /\ open_incident # NoIncident
        /\ ~dryrun /\ ~failed
        /\ Len(requests) = 2

\* C9: a model on time whose component is operational and without open
\* incident, as a healthy iteration leaves it: the next healthy iteration
\* for the model issues no request and leaves the board as it is.
C9_HealthyIdempotent ==
    [][\A m \in Models :
          (/\ iterates(m)
           /\ most_recent_bulletin[m] >= required(m, now)
           /\ get_status(World, STATUSPAGE_ID(m)) = "operational"
           /\ find_open_incident(sp_active_incidents, m) = NoIncident)
          => /\ requests' = <<>>
             /\ UNCHANGED boardvars]_vars

\* a healthy iteration has run for a published model whose component was
\* operational and without incident: only an earlier healthy iteration
\* leaves the board of a published model so (see BoardInit)
C9_SecondHealthyPass ==
    \E m \in Published :
        /\ iterated(m) /\ on_time(m)
        /\ open_incident = NoIncident
        /\ sp_components[STATUSPAGE_ID(m)] = "operational"
        /\ board_components[STATUSPAGE_ID(m)] = "operational"
        /\ canonical(m) = {}
        /\ ~dryrun
        /\ requests = <<>>

---------------------------------------------------------------------------
(* The degraded path with its wording.                                     *)

\* the message that lines 110-114 compose for a model behind its required
\* run req at now
wording(m, req) ==
    escalate([cs |-> "operational", imp |-> "none", msg |-> "None"],
             m, now, req, most_recent_bulletin[m]).msg

\* C17: a model behind its required run whose incident is open and whose
\* component has another status than the one wanted: the iteration pushes
\* the status and then updates message and impact of that incident, not its
\* status, unless a board call fails.  Line 110 raises before either (and
\* line 119 would pass the message as the status of the incident).
C17_DegradedUpdatesIncident ==
    [][\A m \in Models :
          (/\ iterates(m)
           /\ ~(most_recent_bulletin[m] >= required(m, now))
           /\ find_open_incident(sp_active_incidents, m) # NoIncident
           /\ get_status(World, STATUSPAGE_ID(m)) # wanted(m, required(m, now))
           /\ ~dryrun
           /\ ~failed')
          => /\ Len(requests') = 2
             /\ is_status_patch(requests'[1], m, wanted(m, required(m, now)))
             /\ requests'[2].method = "patch"
             /\ requests'[2].incident = find_open_incident(sp_active_incidents, m)
             /\ requests'[2].status = "None"
             /\ requests'[2].message = wording(m, required(m, now))]_vars

\* C18: on the degraded path the message has the significant wording if
\* the required run is delayed at now or its prev is after the consensus,
\* and the mild wording otherwise.  Line 110 raises before any message is
\* composed.
C18_WordingBySeverity ==
    \A m \in Models :
        (iterated(m) /\ ~on_time(m)) =>
            message = IF significant(m) THEN SIGNIFICANT ELSE MILD

\* C19: a model behind its required run without open incident, in a pass
\* whose board calls succeed: after the iteration the board has an open
\* incident with the title of the model on its component, whether or not
\* an earlier pass pushed the status already.  No pass creates one.
C19_BehindGetsIncident ==
    \A m \in Models :
        (iterated(m) /\ ~on_time(m) /\ open_incident = NoIncident
                     /\ ~dryrun /\ ~failed) =>
            canonical(m) # {}

---------------------------------------------------------------------------
(* The threads of fetch_nodes.                                             *)

\* C20: there is one fetch thread per node; the consensus is computed only
\* when every thread has ended, by returning or by raising; and a step of
\* the thread of one node, raising or not, changes the result and the
\* thread of that node only.
C20_FanOutFanIn ==
    [][/\ DOMAIN thread' = Nodes
       /\ most_recent_bulletin' # most_recent_bulletin => pc' \in {"fetch", "extracted"}
       /\ pc' = "extracted" => \A n \in Nodes : thread'[n] \in {"done", "raised"}
       /\ (pc = "fetch" /\ pc' = "fetch") =>
             \A n \in Nodes :
                (thread'[n] # thread[n] \/ result'[n] # result[n]) =>
                    /\ thread[n] = "started"
                    /\ thread'[n] \in {"done", "raised"}
                    /\ \A k \in Nodes \ {n} :
                          thread'[k] = thread[k] /\ result'[k] = result[k]]_vars

\* the consensus is there after the fetch of one node raised and the fetch
\* of another returned with a bulletin
C20_JoinedAfterRaise ==
    /\ pc = "extracted"
    /\ \E n1, n2 \in Nodes :
          /\ thread[n1] = "raised"
          /\ thread[n2] = "done"
          /\ \E m \in Models :
                /\ result[n2][m] # False_
                /\ m \in DOMAIN most_recent_bulletin

---------------------------------------------------------------------------
(* The models no node has observed.                                        *)

\* the unresolved incidents of the board with the title and the component
\* of m, as they are
canonical_incidents(m) == {board_incidents[k] : k \in canonical(m)}

\* request r is about the component of m or about one of its incidents
request_for(r, m) ==
    \/ r.component = STATUSPAGE_ID(m)
    \/ \E inc \in canonical_incidents(m) : r.incident = inc.id

\* C21: a model that no node has observed (and every model, when there is
\* no node) has no entry in most_recent_bulletin; the loop of line 94 has no
\* iteration for it, and from the consensus to the end of the pass no
\* request is about its component or its incident, which stay as they are.
C21_UnobservedSkipped ==
    [][/\ extract_most_recent_bulletin(models, <<>>) = EmptyDict
       /\ pc' = "extracted" =>
             \A m \in Models :
                (\A n \in Nodes : result'[n][m] = False_)
                    => m \notin DOMAIN most_recent_bulletin'
       /\ \A m \in Models :
             (pc \in {"extracted", "loop"} /\ m \notin DOMAIN most_recent_bulletin) =>
                 /\ ~iterated(m)'
                 /\ \A k \in 1 .. Len(requests') : ~request_for(requests'[k], m)
                 /\ board_components'[STATUSPAGE_ID(m)] = board_components[STATUSPAGE_ID(m)]
                 /\ canonical_incidents(m)' = canonical_incidents(m)]_vars

\* a pass is over that wrote to the board for one model and had no
\* consensus for another whose catalog may list datasets and whose incident
\* is open
C21_SkippedBesideWrites ==
    /\ pc = "done"
    /\ requests # <<>>
    /\ \E m \in Published :
          /\ m \notin DOMAIN most_recent_bulletin
          /\ canonical(m) # {}

---------------------------------------------------------------------------
(* The client of SpecPage.                                                 *)

\* C11: a StatusPage constructed with dryrun set issues no PATCH and no
\* POST, whatever methods are called with whatever arguments, and the board
\* stays as it is.
C11_DryRunNeverWrites ==
    [][dryrun => (requests' = <<>> /\ UNCHANGED boardvars)]_vars

\* with dryrun set create_incident has been called and has returned
\* (without dryrun the call posts the incident)
C11_DryCreateCalled ==
    /\ dryrun
    /\ called = "create_incident"
    /\ exc = "none"
    /\ requests = <<>>

---------------------------------------------------------------------------
(* Failures during a pass.                                                 *)

\* C12: an error while one model is reconciled ends that model's
\* reconciliation only: main does not end with an exception, and the models
\* after it in most_recent_bulletin are still iterated.  Nothing in lines
\* 94-122 or 143 catches: the exception ends main.
C12_PassSurvivesFailure ==
    ~(pc = "crashed" /\ i > 0)

---------------------------------------------------------------------------
(* The threads of SpecLock.                                                *)

in_with(c) == caller[c] \in {"sleep", "request"}

\* C13: at most one request to the board is in flight, every request is
\* sent by the one thread that holds API_LOCK, and the semaphore is free
\* whenever no thread is inside the with statement, also after a call
\* that raised.
C13_OneRequestInFlight ==
    /\ Cardinality({c \in Callers : caller[c] = "request"}) <= 1
    /\ Cardinality({c \in Callers : in_with(c)}) = 1 - API_LOCK
    /\ API_LOCK \in {0, 1}

\* the call of one thread raised, and the request of another, which
\* acquired API_LOCK after that, is in flight while a third waits
C13_RequestAfterFailure ==
    \E c1, c2, c3 \in Callers :
        /\ caller[c1] = "raised"
        /\ caller[c2] = "request"
        /\ caller[c3] = "with"

=============================================================================
